---------------------------- MODULE Spec2Model ----------------------------
(***************************************************************************)
(* Box Storage (src/app.py): a Flask application keeping one markdown      *)
(* record per box under boxes/ and one directory of photos per box under   *)
(* photos/.  Strings are sequences of one-character strings, paths are     *)
(* sequences of names below DATA_DIR, and the file system is the state.    *)
(* The host is POSIX (os.linesep = "\n", '/' the only separator).          *)
(***************************************************************************)
EXTENDS Integers, Sequences, FiniteSets, TLC

(***************************************************************************)
(* Bounds of the model.                                                    *)
(***************************************************************************)
\* the clock runs over the seconds 0 .. MaxClock of one day
MaxClock == 1
\* edit submissions of SpecText carry every string of up to MaxLen characters
MaxLen == 2
\* view requests that may be between their existence check and their write
MaxPending == 1

(***************************************************************************)
(* Python str methods, as the code uses them.                              *)
(***************************************************************************)
None == <<"None">>

Range(s) == {s[i] : i \in 1..Len(s)}

\* s[i:] and s[:i] (0-based slices)
Drop(s, n) == SubSeq(s, n + 1, Len(s))

Take(s, n) == SubSeq(s, 1, n)

\* str.isspace() for the characters of the model
Whitespace == {" ", "\n", "\r", "\t"}

\* the characters of names, in code point order: [-.0-9A-Z_a-z]
Ascii ==
  <<"-", ".", "0", "1", "2", "3", "4", "5", "6", "7", "8", "9", "A", "B", "C", "D", "E",
    "F", "G", "H", "I", "J", "K", "L", "M", "N", "O", "P", "Q", "R", "S", "T", "U", "V",
    "W", "X", "Y", "Z", "_", "a", "b", "c", "d", "e", "f", "g", "h", "i", "j", "k", "l",
    "m", "n", "o", "p", "q", "r", "s", "t", "u", "v", "w", "x", "y", "z">>

\* 0 for a character outside Ascii, else its rank
Ord(c) == IF \E i \in 1..Len(Ascii) : Ascii[i] = c
            THEN CHOOSE i \in 1..Len(Ascii) : Ascii[i] = c
            ELSE 0

IsUpper(c) == Ord("A") <= Ord(c) /\ Ord(c) <= Ord("Z")

\* str.lower()
Lower(s) == [i \in 1..Len(s) |->
               IF IsUpper(s[i]) THEN Ascii[Ord(s[i]) - Ord("A") + Ord("a")] ELSE s[i]]

\* the number of leading / trailing characters of s that are in chars
RECURSIVE LeadIn(_, _)
LeadIn(s, chars) ==
  IF s = <<>> \/ Head(s) \notin chars THEN 0 ELSE 1 + LeadIn(Tail(s), chars)

RECURSIVE TrailIn(_, _)
TrailIn(s, chars) ==
  IF s = <<>> \/ s[Len(s)] \notin chars THEN 0
  ELSE 1 + TrailIn(Take(s, Len(s) - 1), chars)

\* str.lstrip(chars), str.rstrip(chars), str.strip(chars)
LStrip(s, chars) == Drop(s, LeadIn(s, chars))

RStrip(s, chars) == Take(s, Len(s) - TrailIn(s, chars))

Strip(s, chars) == RStrip(LStrip(s, chars), chars)

\* 0 when c is not in s, else the 1-based index of its first / last occurrence
IndexOf(s, c) ==
  IF c \in Range(s) THEN CHOOSE i \in 1..Len(s) : s[i] = c /\ \A j \in 1..(i - 1) : s[j] # c
  ELSE 0

LastIndexOf(s, c) ==
  IF c \in Range(s) THEN CHOOSE i \in 1..Len(s) : s[i] = c /\ \A j \in (i + 1)..Len(s) : s[j] # c
  ELSE 0

\* str.split(sep): never empty, ''.split(sep) is ['']
RECURSIVE Split(_, _)
Split(s, sep) ==
  IF IndexOf(s, sep) = 0 THEN <<s>>
  ELSE <<Take(s, IndexOf(s, sep) - 1)>> \o Split(Drop(s, IndexOf(s, sep)), sep)

\* str.rsplit(sep, 1)
RSplit1(s, sep) ==
  IF LastIndexOf(s, sep) = 0 THEN <<s>>
  ELSE <<Take(s, LastIndexOf(s, sep) - 1), Drop(s, LastIndexOf(s, sep))>>

Digit == [d \in 0..9 |->
            CASE d = 0 -> "0" [] d = 1 -> "1" [] d = 2 -> "2" [] d = 3 -> "3"
              [] d = 4 -> "4" [] d = 5 -> "5" [] d = 6 -> "6" [] d = 7 -> "7"
              [] d = 8 -> "8" [] d = 9 -> "9"]

\* str(n) for n >= 0
RECURSIVE Decimal(_)
Decimal(n) == IF n < 10 THEN <<Digit[n]>> ELSE Decimal(n \div 10) \o <<Digit[n % 10]>>

\* format(n, "0<w>d"): zero-padded to at least w digits
RECURSIVE ZeroPad(_, _)
ZeroPad(s, w) == IF Len(s) >= w THEN s ELSE ZeroPad(<<"0">> \o s, w)

\* f"box-{counter:03d}"
BoxName(counter) == <<"b", "o", "x", "-">> \o ZeroPad(Decimal(counter), 3)

\* datetime.now().strftime('%Y%m%d_%H%M%S') at second t of the day 2024-01-01
Strftime(t) ==
  <<"2", "0", "2", "4", "0", "1", "0", "1", "_">>
    \o ZeroPad(Decimal(t \div 3600), 2)
    \o ZeroPad(Decimal((t \div 60) % 60), 2)
    \o ZeroPad(Decimal(t % 60), 2)

\* text-mode read with newline=None: "\r\n" and "\r" become "\n"
RECURSIVE UniversalNewlines(_)
UniversalNewlines(s) ==
  IF s = <<>> THEN <<>>
  ELSE IF Head(s) = "\r"
    THEN <<"\n">> \o UniversalNewlines(
           IF Len(s) >= 2 /\ s[2] = "\n" THEN Drop(s, 2) ELSE Tail(s))
    ELSE <<Head(s)>> \o UniversalNewlines(Tail(s))

(***************************************************************************)
(* The file system below DATA_DIR.  A path is the sequence of its names,   *)
(* DATA_DIR itself is <<>>; fs.dirs is the set of directories and fs.files  *)
(* maps each regular file to its bytes and its modification time.          *)
(***************************************************************************)
DATA_DIR == <<>>

BOXES_DIR == <<<<"b", "o", "x", "e", "s">>>>

PHOTOS_DIR == <<<<"p", "h", "o", "t", "o", "s">>>>

ALLOWED_EXTENSIONS ==
  { <<"p", "n", "g">>, <<"j", "p", "g">>, <<"j", "p", "e", "g">>,
    <<"g", "i", "f">>, <<"w", "e", "b", "p">> }

Dot == <<".">>

DotDot == <<".", ".">>

\* the application's own source file, which lies in the default DATA_DIR
AppFile == <<<<"a", "p", "p", ".", "p", "y">>>>

NoEnt == <<<<"ENOENT">>>>

\* pathlib's p / name: "." and "" add nothing, ".." is kept for the kernel
Join(p, name) == IF name = Dot \/ name = <<>> THEN p ELSE Append(p, name)

\* the kernel's walk of a path: every name but the last is looked up in a
\* directory, ".." is that directory's parent; nothing above DATA_DIR is modelled
RECURSIVE Walk(_, _, _)
Walk(fs, cur, rest) ==
  IF rest = <<>> THEN cur
  ELSE IF cur \notin fs.dirs THEN NoEnt
  ELSE IF Head(rest) = DotDot
    THEN IF cur = DATA_DIR THEN NoEnt ELSE Walk(fs, Take(cur, Len(cur) - 1), Tail(rest))
    ELSE Walk(fs, Append(cur, Head(rest)), Tail(rest))

Resolve(fs, p) == Walk(fs, DATA_DIR, p)

IsDir(fs, p) == Resolve(fs, p) \in fs.dirs

IsFile(fs, p) == Resolve(fs, p) \in DOMAIN fs.files

\* Path.exists()
Exists(fs, p) == IsDir(fs, p) \/ IsFile(fs, p)

\* the names in directory d (a resolved path)
Entries(fs, d) ==
  {q[Len(q)] : q \in {r \in fs.dirs \cup DOMAIN fs.files : Len(r) = Len(d) + 1 /\ Take(r, Len(d)) = d}}

\* PurePath.suffix and PurePath.stem of a name
Suffix(name) ==
  IF 1 < LastIndexOf(name, ".") /\ LastIndexOf(name, ".") < Len(name)
    THEN Drop(name, LastIndexOf(name, ".") - 1)
    ELSE <<>>

Stem(name) ==
  IF 1 < LastIndexOf(name, ".") /\ LastIndexOf(name, ".") < Len(name)
    THEN Take(name, LastIndexOf(name, ".") - 1)
    ELSE name

MdSuffix == <<".", "m", "d">>

\* the names Path.glob("*.md") yields in directory d
GlobMd(fs, d) ==
  {n \in Entries(fs, d) : Len(n) >= Len(MdSuffix) /\ Drop(n, Len(n) - Len(MdSuffix)) = MdSuffix}

\* Path.write_text / FileStorage.save at time now (the caller has resolved p)
WriteFile(fs, p, data, now) ==
  [fs EXCEPT !.files = (p :> [data |-> data, mtime |-> now]) @@ fs.files]

\* Path.unlink of the regular files ps
Unlink(fs, ps) ==
  [fs EXCEPT !.files = [q \in (DOMAIN fs.files) \ ps |-> fs.files[q]]]

Mkdir(fs, p) == [fs EXCEPT !.dirs = fs.dirs \cup {p}]

Rmdir(fs, p) == [fs EXCEPT !.dirs = fs.dirs \ {p}]

\* str < str on names: lexicographic by code point
RECURSIVE StrLess(_, _)
StrLess(a, b) ==
  IF b = <<>> THEN FALSE
  ELSE IF a = <<>> THEN TRUE
  ELSE IF Head(a) = Head(b) THEN StrLess(Tail(a), Tail(b))
  ELSE Ord(Head(a)) < Ord(Head(b))

\* sorted(names)
RECURSIVE Sorted(_)
Sorted(names) ==
  IF names = {} THEN <<>>
  ELSE LET m == CHOOSE n \in names : \A o \in names \ {n} : StrLess(n, o)
       IN  <<m>> \o Sorted(names \ {m})

\* werkzeug.utils.secure_filename: separators become spaces, runs of whitespace
\* become "_", every character outside [A-Za-z0-9_.-] is dropped, and leading
\* and trailing "." and "_" are stripped
RECURSIVE JoinWords(_)
JoinWords(s) ==
  IF LStrip(s, Whitespace \cup {"/"}) = <<>> THEN <<>>
  ELSE LET t == LStrip(s, Whitespace \cup {"/"})
           n == IF \E i \in 1..Len(t) : t[i] \in Whitespace \cup {"/"}
                  THEN (CHOOSE i \in 1..Len(t) : t[i] \in Whitespace \cup {"/"}
                          /\ \A j \in 1..(i - 1) : t[j] \notin Whitespace \cup {"/"}) - 1
                  ELSE Len(t)
           rest == JoinWords(Drop(t, n))
       IN  Take(t, n) \o (IF rest = <<>> THEN <<>> ELSE <<"_">> \o rest)

secure_filename(filename) ==
  Strip(SelectSeq(JoinWords(filename), LAMBDA c : Ord(c) # 0), {".", "_"})

(***************************************************************************)
(* The store functions of src/app.py.                                      *)
(***************************************************************************)
\* filename.rsplit('.', 1)[1].lower()
Extension(filename) == Lower(RSplit1(filename, ".")[2])

\* mutant: any extension is allowed once the name has a dot
allowed_file_any_extension(filename) == "." \in Range(filename)

allowed_file(filename) ==
  "." \in Range(filename) /\ Extension(filename) \in ALLOWED_EXTENSIONS

\* BOXES_DIR / f"{box_id}.md"
BoxFile(box_id) == Join(BOXES_DIR, box_id \o MdSuffix)

\* PHOTOS_DIR / box_id
BoxPhotosDir(box_id) == Join(PHOTOS_DIR, box_id)

\* PHOTOS_DIR / box_id / secure_filename(filename)
PhotoPath(box_id, filename) == Join(BoxPhotosDir(box_id), secure_filename(filename))

get_box_photos(fs, box_id) ==
  IF ~Exists(fs, BoxPhotosDir(box_id)) THEN <<>>
  ELSE Sorted({n \in Entries(fs, Resolve(fs, BoxPhotosDir(box_id))) :
                 LStrip(Lower(Suffix(n)), {"."}) \in ALLOWED_EXTENSIONS})

get_box_content(fs, box_id) ==
  IF Exists(fs, BoxFile(box_id))
    THEN UniversalNewlines(fs.files[Resolve(fs, BoxFile(box_id))].data)
    ELSE None

save_box_content(fs, box_id, content, now) ==
  WriteFile(fs, Resolve(fs, BoxFile(box_id)), content, now)

RECURSIVE NextFreeFrom(_, _)
NextFreeFrom(existing, counter) ==
  IF BoxName(counter) \in existing THEN NextFreeFrom(existing, counter + 1)
  ELSE BoxName(counter)

\* mutant: the id after the number of records, not the first free one
generate_box_id_by_count(fs) ==
  BoxName(Cardinality(GlobMd(fs, Resolve(fs, BOXES_DIR))) + 1)

generate_box_id(fs) ==
  NextFreeFrom({Stem(n) : n \in GlobMd(fs, Resolve(fs, BOXES_DIR))}, 1)

\* f"# {box_id}\n\n## Contents\n\n- \n\n## Location\n\n\n## Notes\n\n"
Template(box_id) ==
  <<"#", " ">> \o box_id \o
  <<"\n", "\n", "#", "#", " ", "C", "o", "n", "t", "e", "n", "t", "s", "\n", "\n",
    "-", " ", "\n", "\n", "#", "#", " ", "L", "o", "c", "a", "t", "i", "o", "n",
    "\n", "\n", "\n", "#", "#", " ", "N", "o", "t", "e", "s", "\n", "\n">>

\* the title get_all_boxes derives for a box
Title(box_id, content) ==
  LET lines == Split(Strip(content, Whitespace), "\n")
  IN  IF lines # <<>> THEN Strip(LStrip(lines[1], {"#", " "}), Whitespace) ELSE box_id

\* sorted(boxes, key=modified, reverse=True): stable, so boxes of equal time keep
\* the order in which glob yielded them
RECURSIVE SortedByModified(_)
SortedByModified(boxes) ==
  IF boxes = <<>> THEN <<>>
  ELSE LET rest == SortedByModified(Take(boxes, Len(boxes) - 1))
           x    == boxes[Len(boxes)]
           k    == Cardinality({i \in 1..Len(rest) : rest[i].modified >= x.modified})
       IN  Take(rest, k) \o <<x>> \o Drop(rest, k)

\* get_all_boxes when glob yields the names in the order globbed
get_all_boxes(fs, globbed) ==
  SortedByModified(
    [i \in 1..Len(globbed) |->
       [id       |-> Stem(globbed[i]),
        title    |-> Title(Stem(globbed[i]),
                           UniversalNewlines(fs.files[Append(BOXES_DIR, globbed[i])].data)),
        modified |-> fs.files[Append(BOXES_DIR, globbed[i])].mtime]])

(***************************************************************************)
(* State: the file system, the wall clock (seconds), the response to the   *)
(* last request with the paths its handler used, and the view requests     *)
(* that have checked for their record and not yet written it.              *)
(***************************************************************************)
VARIABLES fs, clock, last, pending

vars == <<fs, clock, last, pending>>

\* what a handler leaves behind: the file system, the response, and the paths
\* of box records and of photo store entries it read, wrote, made or removed;
\* last keeps them with the request (its handler, box id and argument)
Outcome(f, status, body, records, photos) ==
  [fs |-> f, status |-> status, body |-> body, records |-> records, photos |-> photos]

Responded(op, box_id, arg, o) ==
  /\ fs' = o.fs
  /\ last' = [op |-> op, box_id |-> box_id, arg |-> arg, status |-> o.status,
              body |-> o.body, records |-> o.records, photos |-> o.photos]

Init ==
  /\ fs = [dirs  |-> {DATA_DIR, BOXES_DIR, PHOTOS_DIR},
           files |-> (AppFile :> [data |-> <<"s", "r", "c">>, mtime |-> 0])]
  /\ clock = 0
  /\ last = [op |-> "start", box_id |-> <<>>, arg |-> <<>>, status |-> "200",
             body |-> <<>>, records |-> {}, photos |-> {}]
  /\ pending = {}

\* a second passes
Tick ==
  /\ clock < MaxClock
  /\ clock' = clock + 1
  /\ UNCHANGED <<fs, last, pending>>

\* GET /: index
index_outcomes(f) ==
  { Outcome(f, "200", get_all_boxes(f, globbed),
            {Append(BOXES_DIR, n) : n \in GlobMd(f, BOXES_DIR)}, {}) :
      globbed \in {g \in [1..Cardinality(GlobMd(f, BOXES_DIR)) -> GlobMd(f, BOXES_DIR)] :
                     \A i, j \in DOMAIN g : i # j => g[i] # g[j]} }

index ==
  /\ \E o \in index_outcomes(fs) : Responded("index", <<>>, <<>>, o)
  /\ UNCHANGED <<clock, pending>>

\* the photo store entries get_box_photos looks at
PhotosListed(f, box_id) ==
  IF Exists(f, BoxPhotosDir(box_id)) THEN {Resolve(f, BoxPhotosDir(box_id))} ELSE {}

\* GET /box/<box_id>, lines 99-100: the existence check and the read
view_box_check(f, box_id) == get_box_content(f, box_id)

\* mutant: the template is written whether or not a record was found
view_box_finish_always_saves(f, box_id, content, now) ==
  LET f1 == save_box_content(f, box_id, Template(box_id), now)
  IN  Outcome(f1, "200",
              [content |-> IF content = None THEN Template(box_id) ELSE content,
               photos  |-> get_box_photos(f1, box_id)],
              {Resolve(f, BoxFile(box_id))}, PhotosListed(f1, box_id))

\* GET /box/<box_id>, lines 101-113, with content the value read at line 99
view_box_finish(f, box_id, content, now) ==
  LET f1 == IF content = None THEN save_box_content(f, box_id, Template(box_id), now) ELSE f
  IN  Outcome(f1, "200",
              [content |-> IF content = None THEN Template(box_id) ELSE content,
               photos  |-> get_box_photos(f1, box_id)],
              {Resolve(f, BoxFile(box_id))}, PhotosListed(f1, box_id))

\* GET /box/<box_id> served without another request in between
view_box(box_id) ==
  /\ Responded("view_box", box_id, <<>>,
               view_box_finish(fs, box_id, view_box_check(fs, box_id), clock))
  /\ UNCHANGED <<clock, pending>>

\* POST /box/<box_id>/edit with form field content
edit_box_post(f, box_id, content, now) ==
  Outcome(save_box_content(f, box_id, content, now), "302", box_id,
          {Resolve(f, BoxFile(box_id))}, {})

edit_box_submit(box_id, content) ==
  /\ Responded("edit_box_post", box_id, content, edit_box_post(fs, box_id, content, clock))
  /\ UNCHANGED <<clock, pending>>

\* GET /box/<box_id>/edit
edit_box_get(f, box_id) ==
  Outcome(f, "200",
          IF get_box_content(f, box_id) = None THEN Template(box_id)
          ELSE get_box_content(f, box_id),
          {Resolve(f, BoxFile(box_id))}, {})

edit_box_form(box_id) ==
  /\ Responded("edit_box_get", box_id, <<>>, edit_box_get(fs, box_id))
  /\ UNCHANGED <<clock, pending>>

\* mutant: the new id is reserved by writing its record
new_box_outcome_reserving(f) ==
  Outcome(save_box_content(f, generate_box_id(f), Template(generate_box_id(f)), 0),
          "302", generate_box_id(f),
          {Append(BOXES_DIR, n) : n \in GlobMd(f, BOXES_DIR)}, {})

\* GET /new: redirects to the edit page of generate_box_id()
new_box_outcome(f) ==
  Outcome(f, "302", generate_box_id(f),
          {Append(BOXES_DIR, n) : n \in GlobMd(f, BOXES_DIR)}, {})

new_box ==
  /\ Responded("new_box", <<>>, <<>>, new_box_outcome(fs))
  /\ UNCHANGED <<clock, pending>>

\* the multipart request without a 'photo' part
NoFile == [present |-> FALSE, filename |-> <<>>, bytes |-> <<>>]

\* the name upload_photo gives an accepted file at time now
PhotoName(filename, now) == Strftime(now) \o <<".">> \o Extension(filename)

\* POST /box/<box_id>/photos.  mkdir(exist_ok=True) raises when the path is a
\* regular file or its parent is missing; save raises when the target is a directory
upload_photo(f, box_id, file, now) ==
  LET dir    == BoxPhotosDir(box_id)
      made   == IF IsDir(f, dir) THEN f ELSE Mkdir(f, Resolve(f, dir))
      target == Append(Resolve(f, dir), PhotoName(file.filename, now))
  IN  IF ~file.present THEN Outcome(f, "302", box_id, {}, {})
      ELSE IF file.filename = <<>> THEN Outcome(f, "302", box_id, {}, {})
      ELSE IF ~allowed_file(file.filename) THEN Outcome(f, "302", box_id, {}, {})
      ELSE IF IsFile(f, dir) \/ Resolve(f, dir) = NoEnt
        THEN Outcome(f, "500", <<>>, {}, {})
      ELSE IF target \in made.dirs
        THEN Outcome(made, "500", <<>>, {}, {Resolve(f, dir)})
      ELSE Outcome(WriteFile(made, target, file.bytes, now), "302", box_id,
                   {}, {Resolve(f, dir), target})

upload(box_id, file) ==
  /\ Responded("upload_photo", box_id, file, upload_photo(fs, box_id, file, clock))
  /\ UNCHANGED <<clock, pending>>

\* GET /box/<box_id>/photos/<filename>: send_file raises on a directory
get_photo(f, box_id, filename) ==
  LET photo_path == PhotoPath(box_id, filename)
  IN  IF ~Exists(f, photo_path) THEN Outcome(f, "404", <<>>, {}, {})
      ELSE IF IsDir(f, photo_path)
        THEN Outcome(f, "500", <<>>, {}, {Resolve(f, photo_path)})
      ELSE Outcome(f, "200", f.files[Resolve(f, photo_path)].data,
                   {}, {Resolve(f, photo_path)})

serve_photo(box_id, filename) ==
  /\ Responded("get_photo", box_id, filename, get_photo(fs, box_id, filename))
  /\ UNCHANGED <<clock, pending>>

\* POST /box/<box_id>/photos/<filename>/delete: unlink raises on a directory
delete_photo(f, box_id, filename) ==
  LET photo_path == PhotoPath(box_id, filename)
  IN  IF ~Exists(f, photo_path) THEN Outcome(f, "302", box_id, {}, {})
      ELSE IF IsDir(f, photo_path)
        THEN Outcome(f, "500", <<>>, {}, {Resolve(f, photo_path)})
      ELSE Outcome(Unlink(f, {Resolve(f, photo_path)}), "302", box_id,
                   {}, {Resolve(f, photo_path)})

remove_photo(box_id, filename) ==
  /\ Responded("delete_photo", box_id, filename, delete_photo(fs, box_id, filename))
  /\ UNCHANGED <<clock, pending>>

\* POST /box/<box_id>/delete.  glob('*') yields the entries of the photo
\* directory in the directory's own order; unlink raises on the first entry that
\* is a directory, after the files yielded before it are gone: any set of the
\* files then.  With files only, all are unlinked and the directory is removed.
delete_box(f, box_id) ==
  LET box_file == BoxFile(box_id)
      f1   == IF Exists(f, box_file) THEN Unlink(f, {Resolve(f, box_file)}) ELSE f
      recs == IF Exists(f, box_file) THEN {Resolve(f, box_file)} ELSE {}
      dir  == Resolve(f1, BoxPhotosDir(box_id))
      kids == {Append(dir, n) : n \in Entries(f1, dir)}
  IN  IF ~Exists(f1, BoxPhotosDir(box_id)) THEN {Outcome(f1, "302", <<>>, recs, {})}
      ELSE IF IsFile(f1, BoxPhotosDir(box_id))
        THEN {Outcome(f1, "500", <<>>, recs, {dir})}
      ELSE IF kids \cap f1.dirs # {}
        THEN {Outcome(Unlink(f1, gone), "500", <<>>, recs, gone \cup {dir}) :
                gone \in SUBSET (kids \ f1.dirs)}
      ELSE {Outcome(Rmdir(Unlink(f1, kids), dir), "302", <<>>, recs, kids \cup {dir})}

remove_box(box_id) ==
  /\ \E o \in delete_box(fs, box_id) : Responded("delete_box", box_id, <<>>, o)
  /\ UNCHANGED <<clock, pending>>

\* GET /box/<box_id> in two steps, other requests in between: the handler has
\* read the record (line 99) and holds the result in its local content
view_box_begin(box_id) ==
  /\ Cardinality(pending) < MaxPending
  /\ pending' = pending \cup {[box_id |-> box_id, content |-> view_box_check(fs, box_id)]}
  /\ UNCHANGED <<fs, clock, last>>

view_box_end(r) ==
  /\ r \in pending
  /\ pending' = pending \ {r}
  /\ Responded("view_box", r.box_id, <<>>, view_box_finish(fs, r.box_id, r.content, clock))
  /\ UNCHANGED clock

(***************************************************************************)
(* Requests.  <box_id> and <filename> are single path segments: any text   *)
(* without "/", "." and ".." included.                                     *)
(***************************************************************************)
Upload(filename, bytes) == [present |-> TRUE, filename |-> filename, bytes |-> bytes]

Jpg == <<".", "j", "p", "g">>

(***************************************************************************)
(* Spec: every handler, each request served whole, all within one second.  *)
(***************************************************************************)
BoxIds == {BoxName(1), Dot, DotDot}

EditContents == {<<"#", " ", "A", "\n", "b">>}

Uploads ==
  { NoFile,
    Upload(<<>>, <<"x">>),
    Upload(<<"a", ".", "J", "P", "G">>, <<"x">>),
    Upload(<<"a", ".", "e", "x", "e">>, <<"x">>),
    Upload(<<"j", "p", "g">>, <<"x">>) }

Filenames == {Strftime(0) \o Jpg, DotDot, AppFile[1]}

Next ==
  \/ index
  \/ new_box
  \/ \E box_id \in BoxIds : view_box(box_id)
  \/ \E box_id \in BoxIds : edit_box_form(box_id)
  \/ \E box_id \in BoxIds, content \in EditContents : edit_box_submit(box_id, content)
  \/ \E box_id \in BoxIds, file \in Uploads : upload(box_id, file)
  \/ \E box_id \in BoxIds, filename \in Filenames : serve_photo(box_id, filename)
  \/ \E box_id \in BoxIds, filename \in Filenames : remove_photo(box_id, filename)
  \/ \E box_id \in BoxIds : remove_box(box_id)

Spec == Init /\ [][Next]_vars

(***************************************************************************)
(* SpecBoxes: the box store, with numbered ids and a chosen one.           *)
(***************************************************************************)
Shed == <<"s", "h", "e", "d">>

StoreIds == {BoxName(1), BoxName(2), BoxName(3), Shed}

StoreContents == {<<>>, <<"#", " ", "A", "\n", "b">>}

NextBoxes ==
  \/ index
  \/ new_box
  \/ \E box_id \in StoreIds : view_box(box_id)
  \/ \E box_id \in StoreIds : edit_box_form(box_id)
  \/ \E box_id \in StoreIds, content \in StoreContents : edit_box_submit(box_id, content)
  \/ \E box_id \in StoreIds : remove_box(box_id)

SpecBoxes == Init /\ [][NextBoxes]_vars

(***************************************************************************)
(* SpecClock: uploads as the seconds pass.                                 *)
(***************************************************************************)
ClockIds == {BoxName(1), Dot}

ClockUploads ==
  { Upload(<<"a", ".", "J", "P", "G">>, <<"x">>),
    Upload(<<"b", ".", "j", "p", "g">>, <<"y">>) }

ClockFilenames == {Strftime(t) \o Jpg : t \in 0..MaxClock}

NextClock ==
  \/ Tick
  \/ \E box_id \in ClockIds : view_box(box_id)
  \/ \E box_id \in ClockIds, file \in ClockUploads : upload(box_id, file)
  \/ \E box_id \in ClockIds, filename \in ClockFilenames : serve_photo(box_id, filename)
  \/ \E box_id \in ClockIds : remove_box(box_id)

SpecClock == Init /\ [][NextClock]_vars

(***************************************************************************)
(* SpecText: edit submissions of every short text, read back and listed.   *)
(***************************************************************************)
TextIds == {BoxName(1), BoxName(2)}

TextChars == {"#", "a", "\r", "\n"}

RECURSIVE Strings(_)
Strings(n) ==
  IF n = 0 THEN {<<>>}
  ELSE Strings(n - 1) \cup {Append(s, c) : s \in Strings(n - 1), c \in TextChars}

NextText ==
  \/ Tick
  \/ index
  \/ \E box_id \in TextIds : edit_box_form(box_id)
  \/ \E box_id \in TextIds, content \in Strings(MaxLen) : edit_box_submit(box_id, content)
  \/ \E box_id \in TextIds : remove_box(box_id)

SpecText == Init /\ [][NextText]_vars

(***************************************************************************)
(* SpecConc: view requests overlapping edit submissions and deletes.       *)
(***************************************************************************)
ConcIds == {BoxName(1), Shed}

NextConc ==
  \/ \E box_id \in ConcIds : view_box_begin(box_id)
  \/ \E r \in pending : view_box_end(r)
  \/ \E box_id \in ConcIds, content \in EditContents : edit_box_submit(box_id, content)
  \/ \E box_id \in ConcIds : remove_box(box_id)

SpecConc == Init /\ [][NextConc]_vars

(***************************************************************************)
(* Properties.  They speak of the file system directly: a box has a record *)
(* when boxes/<id>.md is a regular file.                                   *)
(***************************************************************************)
RecordPath(box_id) == <<<<"b", "o", "x", "e", "s">>, box_id \o <<".", "m", "d">>>>

HasRecord(f, box_id) == RecordPath(box_id) \in DOMAIN f.files

Stored(f, box_id) == f.files[RecordPath(box_id)].data

StartsWith(s, prefix) == Len(s) >= Len(prefix) /\ Take(s, Len(prefix)) = prefix

Contains(s, sub) == \E i \in 0..(Len(s) - Len(sub)) : SubSeq(s, i + 1, i + Len(sub)) = sub

\* box-001, box-002, ... written out
Numbered ==
  << <<"b", "o", "x", "-", "0", "0", "1">>, <<"b", "o", "x", "-", "0", "0", "2">>,
     <<"b", "o", "x", "-", "0", "0", "3">>, <<"b", "o", "x", "-", "0", "0", "4">> >>

IsSmallestUnused(f, id) ==
  \E n \in 1..Len(Numbered) :
    /\ id = Numbered[n]
    /\ ~HasRecord(f, Numbered[n])
    /\ \A m \in 1..(n - 1) : HasRecord(f, Numbered[m])

\* C4: in every reachable store, generate_box_id() is box-NNN for the smallest
\* n >= 1 without a record, so it is never an id that has a record; the id
\* GET /new redirects to is that one.
C4_SmallestUnusedId ==
  /\ IsSmallestUnused(fs, generate_box_id(fs))
  /\ ~HasRecord(fs, generate_box_id(fs))
  /\ last.op = "new_box" => IsSmallestUnused(fs, last.body) /\ ~HasRecord(fs, last.body)

\* GET /new answered box-001 in a store with a gap (box-001 deleted, box-002
\* kept) and a chosen id
C4_Witness ==
  /\ last.op = "new_box"
  /\ last.body = Numbered[1]
  /\ HasRecord(fs, Numbered[2])
  /\ HasRecord(fs, Shed)

IsTemplateFor(content, box_id) ==
  /\ StartsWith(content, <<"#", " ">> \o box_id)
  /\ Contains(content, <<"#", "#", " ", "C", "o", "n", "t", "e", "n", "t", "s">>)
  /\ Contains(content, <<"#", "#", " ", "L", "o", "c", "a", "t", "i", "o", "n">>)
  /\ Contains(content, <<"#", "#", " ", "N", "o", "t", "e", "s">>)

\* C6: a view of an id without a record creates one that starts with "# <id>"
\* and holds the Contents, Location and Notes headers; a view of an id with a
\* record leaves its content as it is; the edit form of an id without a record
\* shows that template and creates nothing.
C6_ViewCreatesEditFormDoesNot ==
  [][ /\ last'.op = "view_box" /\ ~HasRecord(fs, last'.box_id) =>
           /\ HasRecord(fs', last'.box_id)
           /\ IsTemplateFor(Stored(fs', last'.box_id), last'.box_id)
           /\ last'.body.content = Stored(fs', last'.box_id)
      /\ last'.op = "view_box" /\ HasRecord(fs, last'.box_id) =>
           /\ HasRecord(fs', last'.box_id)
           /\ Stored(fs', last'.box_id) = Stored(fs, last'.box_id)
      /\ last'.op = "edit_box_get" =>
           /\ fs' = fs
           /\ ~HasRecord(fs, last'.box_id) =>
                /\ IsTemplateFor(last'.body, last'.box_id)
                /\ last'.body = view_box_finish(fs, last'.box_id, None, clock).body.content
    ]_vars

\* a view has just shown the template it stored for the chosen id, while
\* another box keeps what was submitted for it
C6_Witness ==
  /\ last.op = "view_box"
  /\ last.box_id = Shed
  /\ HasRecord(fs, Shed)
  /\ IsTemplateFor(Stored(fs, Shed), Shed)
  /\ HasRecord(fs, Numbered[1])
  /\ ~IsTemplateFor(Stored(fs, Numbered[1]), Numbered[1])

\* the entries of f's photo store that belong to box_id: photos/<box_id> and below
InPhotoDirOf(p, box_id) ==
  Len(p) >= 2 /\ p[1] = <<"p", "h", "o", "t", "o", "s">> /\ p[2] = box_id

DeleteLeavesNothing(f, g, box_id) ==
  /\ \A o \in index_outcomes(g) : \A i \in DOMAIN o.body : o.body[i].id # box_id
  /\ get_box_photos(g, box_id) = <<>>
  /\ \A n \in Range(get_box_photos(f, box_id)) : get_photo(g, box_id, n).status = "404"

\* C2: right after delete_box(id) the list of boxes has no entry for id, the
\* photo list of id is empty, and every filename that was a photo of id is
\* answered not found.
C2_DeleteRemovesAll ==
  [][last'.op = "delete_box" => DeleteLeavesNothing(fs, fs', last'.box_id)]_vars

\* the same for the box ids that are names (neither "." nor ".."), which holds
C2_DeleteRemovesAllOfNamedBox ==
  [][last'.op = "delete_box" /\ last'.box_id \notin {Dot, DotDot} =>
       DeleteLeavesNothing(fs, fs', last'.box_id)]_vars

\* C3: a box record a request uses is a direct child of boxes/, and whatever
\* upload_photo, get_photo, delete_photo and delete_box read, write, make or
\* remove in the photo store is photos/<box_id> or inside it.
C3_PathsStayInside ==
  /\ \A p \in last.records : Len(p) = 2 /\ p[1] = <<"b", "o", "x", "e", "s">>
  /\ last.op \in {"upload_photo", "get_photo", "delete_photo", "delete_box"} =>
       \A p \in last.photos : InPhotoDirOf(p, last.box_id)

\* the part of C3 about box records, which holds
C3_RecordsStayInside ==
  \A p \in last.records : Len(p) = 2 /\ p[1] = <<"b", "o", "x", "e", "s">>

AllowedWritten ==
  { <<"p", "n", "g">>, <<"j", "p", "g">>, <<"j", "p", "e", "g">>,
    <<"g", "i", "f">>, <<"w", "e", "b", "p">> }

\* the text after the last "." of filename, in lower case, is an allowed extension
HasAllowedExtension(filename) ==
  \E i \in 1..Len(filename) :
    /\ filename[i] = "."
    /\ \A j \in (i + 1)..Len(filename) : filename[j] # "."
    /\ Lower(Drop(filename, i)) \in AllowedWritten

InvalidUpload(file) ==
  ~file.present \/ file.filename = <<>> \/ ~HasAllowedExtension(file.filename)

\* C7: an upload without a photo part, with an empty filename or with an
\* extension outside png/jpg/jpeg/gif/webp changes no file and no directory (no
\* photo list, no box record, no new photo directory) and is answered by the redirect.
C7_InvalidUploadIsNoOp ==
  [][last'.op = "upload_photo" /\ InvalidUpload(last'.arg) =>
       fs' = fs /\ last'.status = "302"]_vars

\* a.exe was just uploaded to box-001, whose photo list, of one photo, is as before
C7_Witness ==
  /\ last.op = "upload_photo"
  /\ last.box_id = Numbered[1]
  /\ last.arg.present
  /\ last.arg.filename = <<"a", ".", "e", "x", "e">>
  /\ Len(get_box_photos(fs, Numbered[1])) = 1

\* YYYYMMDD_HHMMSS of the first seconds of the clock, written out
Stamps ==
  << <<"2", "0", "2", "4", "0", "1", "0", "1", "_", "0", "0", "0", "0", "0", "0">>,
     <<"2", "0", "2", "4", "0", "1", "0", "1", "_", "0", "0", "0", "0", "0", "1">>,
     <<"2", "0", "2", "4", "0", "1", "0", "1", "_", "0", "0", "0", "0", "0", "2">>,
     <<"2", "0", "2", "4", "0", "1", "0", "1", "_", "0", "0", "0", "0", "0", "3">> >>

\* ".<extension in lower case>" of an uploaded filename
DotExtension(filename) ==
  Lower(Drop(filename, (CHOOSE i \in 1..Len(filename) :
                          filename[i] = "." /\ \A j \in (i + 1)..Len(filename) : filename[j] # ".") - 1))

\* an accepted upload at second t turning file system f into g
StoredUnderStamp(f, g, box_id, file, t, status) ==
  LET name == Stamps[t + 1] \o DotExtension(file.filename)
  IN  /\ status = "302"
      /\ get_photo(g, box_id, name).status = "200"
      /\ get_photo(g, box_id, name).body = file.bytes
      /\ name \in Range(get_box_photos(g, box_id))
      /\ IF name \in Range(get_box_photos(f, box_id))
           THEN get_box_photos(g, box_id) = get_box_photos(f, box_id)
           ELSE Len(get_box_photos(g, box_id)) = Len(get_box_photos(f, box_id)) + 1

\* C9: an accepted upload to box b at second T with extension e is stored as
\* <YYYYMMDD_HHMMSS of T>.<e in lower case> in b's photo directory, made if
\* absent, and answered by the redirect: the photo list of b grows by one when
\* the name is new, and an upload in the same second with the same extension
\* replaces the bytes under the one name.
C9_UploadNamedBySecond ==
  [][last'.op = "upload_photo" /\ ~InvalidUpload(last'.arg) =>
       StoredUnderStamp(fs, fs', last'.box_id, last'.arg, clock, last'.status)]_vars

\* the same while the directory photos/ exists, which holds
C9_UploadNamedBySecondInPhotosDir ==
  [][last'.op = "upload_photo" /\ ~InvalidUpload(last'.arg)
       /\ <<<<"p", "h", "o", "t", "o", "s">>>> \in fs.dirs =>
       StoredUnderStamp(fs, fs', last'.box_id, last'.arg, clock, last'.status)]_vars

\* C1: right after an edit submission of content C for a box, reading the box
\* returns exactly C.
C1_WriteReadRoundTrip ==
  last.op = "edit_box_post" =>
    last.status = "302" /\ get_box_content(fs, last.box_id) = last.arg

\* the same for contents without a carriage return, which holds
C1_RoundTripWithoutCarriageReturn ==
  last.op = "edit_box_post" /\ "\r" \notin Range(last.arg) =>
    last.status = "302" /\ get_box_content(fs, last.box_id) = last.arg

\* the title the claim gives a box: its id when the content is empty, else the
\* first line of the content without leading "#" and blanks
ClaimedTitle(box_id, content) ==
  IF content = <<>> THEN box_id
  ELSE Strip(LStrip(Split(Strip(content, Whitespace), "\n")[1], {"#", " "}), Whitespace)

\* C8: the list of boxes gives each box the title of its first line, its id
\* when its content is empty, and is in descending order of modification time.
C8_ListTitlesAndOrder ==
  last.op = "index" =>
    /\ \A i \in DOMAIN last.body :
         last.body[i].title = ClaimedTitle(last.body[i].id, get_box_content(fs, last.body[i].id))
    /\ \A i, j \in DOMAIN last.body : i < j => last.body[i].modified >= last.body[j].modified

\* the same without the boxes of empty content, which holds
C8_OrderAndTitlesOfNonEmpty ==
  last.op = "index" =>
    /\ \A i \in DOMAIN last.body :
         get_box_content(fs, last.body[i].id) # <<>> =>
           last.body[i].title = ClaimedTitle(last.body[i].id, get_box_content(fs, last.body[i].id))
    /\ \A i, j \in DOMAIN last.body : i < j => last.body[i].modified >= last.body[j].modified
    /\ {last.body[i].id : i \in DOMAIN last.body} = {id \in TextIds : HasRecord(fs, id)}

\* the record of box_id holds a content that an edit submission wrote
Edited(f, box_id) == HasRecord(f, box_id) /\ Stored(f, box_id) \in EditContents

\* C10: whatever the interleaving of view requests and edit submissions, the
\* content an edit submission has stored for a box stays a submitted content
\* until the box is deleted: the template of a view never replaces it.
C10_EditNeverReplacedByTemplate ==
  [][\A b \in ConcIds :
       Edited(fs, b) /\ ~(last'.op = "delete_box" /\ last'.box_id = b) => Edited(fs', b)]_vars

\* C10 as amended: a submitted content is replaced only by the delete of its
\* box, or by the template of a view request whose existence check found no
\* record, that is, ran before the submission was stored; a view whose check
\* finds the record writes nothing.
C10_OnlyEarlierCheckedViewReplaces ==
  [][\A b \in ConcIds :
       Edited(fs, b) /\ ~Edited(fs', b) =>
         \/ last'.op = "delete_box" /\ last'.box_id = b
         \/ \E r \in pending :
              /\ r.box_id = b
              /\ r.content = None
              /\ pending' = pending \ {r}
              /\ last'.op = "view_box"
              /\ last'.box_id = b
              /\ IsTemplateFor(Stored(fs', b), b)]_vars

\* an edit submission has just been stored for a box while a view of that box,
\* which found no record, has yet to write
C10_Witness ==
  \E r \in pending :
    /\ r.content = None
    /\ last.op = "edit_box_post"
    /\ last.box_id = r.box_id
    /\ Edited(fs, r.box_id)

=============================================================================
